---------------------------- MODULE Spec2Model ----------------------------
(***************************************************************************)
(* Case/task lifecycle of the legal case tracker: the status engine and    *)
(* the date propagation engine of src/db/queries.py, the handlers of       *)
(* src/app32.py that call them, and the tables of src/models.py.           *)
(*                                                                         *)
(* Dates are day numbers (1, 2, ...); every date the program stores is a   *)
(* midnight value, so a day number loses nothing.  SQL NULL and Python     *)
(* None are Null.  A table is a function from primary keys to rows.        *)
(***************************************************************************)
EXTENDS Integers, FiniteSets, Sequences, TLC

(* ------------------------------ bounds -------------------------------- *)
MaxDay == 2
MaxOffset == 1
MaxCases == 1
MaxTemplateTypes == 1
MaxTemplateTasks == 2
MaxRemarks == 1
MaxAttachments == 1

(* ------------------------------ domains ------------------------------- *)
Null == -1

Days == 1..MaxDay
OptDays == {Null} \cup Days
Offsets == {Null} \cup (1..MaxOffset)

Statuses == {"Not Started", "In Progress", "On Hold", "Completed"}
NewCaseStatuses == {"Not Started", "In Progress", "On Hold"}
\* The statuses a classifier is called with: the four, and one it does not know.
ClassifierStatuses == Statuses \cup {"Archived"}
TypeNames == {"Litigation"}
CaseNames == {"case"}
TaskNames == {"task"}
Documents == {"docs"}
Sequences123 == {1, 2}
Users == {"admin", "user"}
NoUser == "none"

privilege(u) == IF u = "admin" THEN "Admin" ELSE "User"

VARIABLES today, cases, tasks, template_types, task_templates,
          case_remarks, task_attachments, upload_directory, id_seq, last,
          ever_in_progress, sessions

vars == <<today, cases, tasks, template_types, task_templates,
          case_remarks, task_attachments, upload_directory, id_seq, last,
          ever_in_progress, sessions>>

(* ------------------------------ helpers ------------------------------- *)
SetMin(S) == CHOOSE x \in S : \A y \in S : x <= y
SetMax(S) == CHOOSE x \in S : \A y \in S : x >= y

\* SQL MIN / MAX over a column: NULLs are skipped, an empty input gives NULL.
SqlMin(S) == IF S \ {Null} = {} THEN Null ELSE SetMin(S \ {Null})
SqlMax(S) == IF S \ {Null} = {} THEN Null ELSE SetMax(S \ {Null})

\* Rows of tasks that belong to a case.
TasksOf(T, case_id) == {t \in DOMAIN T : T[t].case_id = case_id}

\* A table without the rows in D.
Without(F, D) == [k \in (DOMAIN F) \ D |-> F[k]]

\* A table with row r added under key k.
With(F, k, r) == [x \in (DOMAIN F) \cup {k} |-> IF x = k THEN r ELSE F[x]]

(* ----------------------- date propagation engine ---------------------- *)
\* The element of a one-element set.  {e(x) : x \in {v}} binds x to the value
\* of v, so that e reads it without evaluating v again.
TheOne(S) == CHOOSE x \in S : TRUE

\* Variant that fills in only the due dates that are still NULL, keeping a due
\* date that was set explicitly.
db_calculate_and_set_task_due_dates_if_unset(T, case_id, start_date) ==
    [t \in DOMAIN T |->
        IF T[t].case_id = case_id /\ T[t].day_offset # Null /\ T[t].due_date = Null
        THEN [T[t] EXCEPT !.due_date = start_date + T[t].day_offset]
        ELSE T[t]]

\* UPDATE tasks SET due_date = start_date + day_offset for the tasks of the
\* case whose day_offset IS NOT NULL.
db_calculate_and_set_task_due_dates(T, case_id, start_date) ==
    [t \in DOMAIN T |->
        IF T[t].case_id = case_id /\ T[t].day_offset # Null
        THEN [T[t] EXCEPT !.due_date = start_date + T[t].day_offset]
        ELSE T[t]]

\* Variant that takes the earliest completed date of the tasks instead of the
\* latest.
new_case_completed_date_earliest(T, case_id, now) ==
    LET incomplete_tasks_count ==
            Cardinality({t \in TasksOf(T, case_id) : T[t].status # "Completed"})
        min_task_completed_date ==
            SqlMin({T[t].task_completed_date :
                      t \in {u \in TasksOf(T, case_id) : T[u].status = "Completed"}})
    IN IF incomplete_tasks_count = 0
       THEN (IF min_task_completed_date # Null THEN min_task_completed_date ELSE now)
       ELSE Null

\* The case's completed date as db_update_case_dates_from_tasks computes it
\* from the tasks T (queries.py 155-163).
new_case_completed_date(T, case_id, now) ==
    LET incomplete_tasks_count ==
            Cardinality({t \in TasksOf(T, case_id) : T[t].status # "Completed"})
        max_task_completed_date ==
            SqlMax({T[t].task_completed_date :
                      t \in {u \in TasksOf(T, case_id) : T[u].status = "Completed"}})
    IN IF incomplete_tasks_count = 0
       THEN (IF max_task_completed_date # Null THEN max_task_completed_date ELSE now)
       ELSE Null

\* Variant that takes the latest start date of the tasks instead of the
\* earliest.
new_case_start_date_latest(S, case_id) ==
    LET current_case_start_date ==
            IF case_id \in DOMAIN S.cases THEN S.cases[case_id].start_date ELSE Null
        max_task_start_date ==
            SqlMax({S.tasks[t].task_start_date :
                      t \in {u \in TasksOf(S.tasks, case_id) :
                               S.tasks[u].status \in {"In Progress", "Completed"}}})
    IN IF max_task_start_date # Null THEN max_task_start_date
       ELSE current_case_start_date

\* The case's start date as db_update_case_dates_from_tasks computes it
\* (queries.py 143-150).
new_case_start_date(S, case_id) ==
    LET current_case_start_date ==
            IF case_id \in DOMAIN S.cases THEN S.cases[case_id].start_date ELSE Null
        min_task_start_date ==
            SqlMin({S.tasks[t].task_start_date :
                      t \in {u \in TasksOf(S.tasks, case_id) :
                               S.tasks[u].status \in {"In Progress", "Completed"}}})
    IN IF min_task_start_date # Null THEN min_task_start_date
       ELSE current_case_start_date

\* Variant that writes the start date and leaves the completed date as it is.
db_update_case_dates_from_tasks_start_only(S0, case_id, now) ==
    TheOne({
      TheOne({
        [cases |-> [c \in DOMAIN S.cases |->
                      IF c = case_id
                      THEN [S.cases[c] EXCEPT !.start_date = start]
                      ELSE S.cases[c]],
         tasks |-> IF /\ start # Null
                      /\ (case_id \notin DOMAIN S.cases \/ start # S.cases[case_id].start_date)
                   THEN db_calculate_and_set_task_due_dates(S.tasks, case_id, start)
                   ELSE S.tasks]
        : start \in {new_case_start_date(S, case_id)} })
      : S \in {S0} })

\* S0 is the store [cases, tasks]; the result is the store after the call.
db_update_case_dates_from_tasks(S0, case_id, now) ==
    TheOne({
      TheOne({
        TheOne({
          [cases |-> [c \in DOMAIN S.cases |->
                        IF c = case_id
                        THEN [S.cases[c] EXCEPT
                                !.start_date = start,
                                !.completed_date = new_case_completed_date(T1, case_id, now)]
                        ELSE S.cases[c]],
           tasks |-> T1]
          : T1 \in {IF /\ start # Null
                       /\ (case_id \notin DOMAIN S.cases \/ start # S.cases[case_id].start_date)
                    THEN db_calculate_and_set_task_due_dates(S.tasks, case_id, start)
                    ELSE S.tasks} })
        : start \in {new_case_start_date(S, case_id)} })
      : S \in {S0} })

(* ----------------------- status transition engine --------------------- *)
\* Variant that writes the status only, whatever the start date is.
db_update_case_status_only(S0, case_id, status, now) ==
    TheOne({
      IF case_id \notin DOMAIN S.cases THEN S
      ELSE db_update_case_dates_from_tasks(
               [cases |-> [S.cases EXCEPT ![case_id].status = status],
                tasks |-> S.tasks],
               case_id, now)
      : S \in {S0} })

\* Status, and the initial start date with the due dates that follow from it
\* (queries.py 191-208).
db_update_case_status_and_start_date(S0, case_id, status, now) ==
    TheOne({
      IF case_id \notin DOMAIN S.cases THEN S
      ELSE IF status = "In Progress" /\ S.cases[case_id].start_date = Null
      THEN db_update_case_dates_from_tasks(
               [cases |-> [S.cases EXCEPT ![case_id].status = status,
                                          ![case_id].start_date = now],
                tasks |-> db_calculate_and_set_task_due_dates(S.tasks, case_id, now)],
               case_id, now)
      ELSE db_update_case_dates_from_tasks(
               [cases |-> [S.cases EXCEPT ![case_id].status = status],
                tasks |-> S.tasks],
               case_id, now)
      : S \in {S0} })

db_check_and_complete_case(S0, case_id, now) ==
    TheOne({
      IF Cardinality({t \in TasksOf(S.tasks, case_id) : S.tasks[t].status # "Completed"}) = 0
      THEN db_update_case_dates_from_tasks(
               [cases |-> [c \in DOMAIN S.cases |->
                             IF c = case_id
                             THEN [S.cases[c] EXCEPT !.status = "Completed"]
                             ELSE S.cases[c]],
                tasks |-> S.tasks],
               case_id, now)
      ELSE S
      : S \in {S0} })

\* Variant that persists the requested status as it is.
final_status_as_requested(status, start_date_input, completed_date_input) == status

\* The status that is persisted (queries.py 244-248).
final_status(status, start_date_input, completed_date_input) ==
    IF completed_date_input # Null THEN "Completed"
    ELSE IF start_date_input # Null /\ status # "Completed" THEN "In Progress"
    ELSE status

\* Variant that stamps a Completed task with today whenever no completed date
\* is supplied.
updated_task_completed_today(task_data, name, status, start_date_input, completed_date_input, new_due_date_input, updated_by_user, now) ==
    LET fs == final_status(status, start_date_input, completed_date_input)
    IN [task_data EXCEPT !.task_name = name,
                         !.status = fs,
                         !.task_start_date =
                             IF start_date_input = Null /\ fs = "In Progress"
                             THEN now ELSE start_date_input,
                         !.task_completed_date =
                             IF fs # "Completed" THEN Null
                             ELSE IF completed_date_input # Null
                                  THEN completed_date_input ELSE now,
                         !.due_date = new_due_date_input,
                         !.last_updated_by = updated_by_user]

\* The task row db_update_task_details writes (queries.py 250-265).
updated_task(task_data, name, status, start_date_input, completed_date_input, new_due_date_input, updated_by_user, now) ==
    LET fs == final_status(status, start_date_input, completed_date_input)
        start_date_for_db ==
            IF start_date_input = Null /\ fs = "In Progress" THEN now
            ELSE start_date_input
        completed_date_for_db ==
            IF fs # "Completed" THEN Null
            ELSE IF completed_date_input # Null THEN completed_date_input
            ELSE IF task_data.task_completed_date # Null
                 THEN task_data.task_completed_date ELSE now
    IN [task_data EXCEPT !.task_name = name,
                         !.status = fs,
                         !.task_start_date = start_date_for_db,
                         !.task_completed_date = completed_date_for_db,
                         !.due_date = new_due_date_input,
                         !.last_updated_by = updated_by_user]

\* Variant in which a task update never starts the case.
auto_start_never(S, case_id) == FALSE

\* The case is started automatically (queries.py 269-271).
auto_start(S, case_id) ==
    /\ case_id \in DOMAIN S.cases
    /\ S.cases[case_id].status = "Not Started"
    /\ S.cases[case_id].start_date # Null

\* Variant that answers with the default status instead of the one it was given.
task_not_found_default_status(S, status) ==
    [store |-> S, found |-> FALSE, status |-> "Not Started", started |-> FALSE]

\* No task row has the id: return status, False (queries.py 239).
task_not_found(S, status) ==
    [store |-> S, found |-> FALSE, status |-> status, started |-> FALSE]

\* The result is [store, found, status, started]: the store after the call,
\* whether the task row was found, and the returned pair.
db_update_task_details(S, task_id, name, status, start_date_input, completed_date_input, new_due_date_input, updated_by_user, now) ==
    IF task_id \notin DOMAIN S.tasks
    THEN task_not_found(S, status)
    ELSE
      TheOne({
        TheOne({
          [store |-> S4, found |-> TRUE, status |-> S4.tasks[task_id].status,
           started |-> auto_start(S2, S.tasks[task_id].case_id)]
          : S4 \in {db_check_and_complete_case(
                      IF auto_start(S2, S.tasks[task_id].case_id)
                      THEN db_update_case_status_and_start_date(
                               S2, S.tasks[task_id].case_id, "In Progress", now)
                      ELSE S2,
                      S.tasks[task_id].case_id, now)} })
        : S2 \in {db_update_case_dates_from_tasks(
                    [cases |-> S.cases,
                     tasks |-> [S.tasks EXCEPT ![task_id] =
                                  updated_task(S.tasks[task_id], name, status,
                                               start_date_input, completed_date_input,
                                               new_due_date_input, updated_by_user, now)]],
                    S.tasks[task_id].case_id, now)} })

(* ------------------- db_update_task_details, statement by statement ---- *)
\* Two browser sessions at most call db_update_task_details at the same time.
MaxSessions == 2
SessionIds == 1..MaxSessions

\* A session that is not inside a call.  Inside a call the record holds the
\* arguments of the call, the position in the code (pc, and the stack of the
\* positions to return to), the local variables of the functions on the way,
\* and a log of what this call did to the store: the task row its UPDATE wrote
\* (written), the place of that UPDATE among the task UPDATEs of all calls
\* (update_seq), the case status changes it made (status_writes) and the due
\* dates it set (due_writes).
Idle ==
    [pc |-> "idle", stack |-> <<>>, calls |-> 0,
     task_id |-> Null, name |-> "", status |-> "", start_date_input |-> Null,
     completed_date_input |-> Null, new_due_date_input |-> Null, updated_by_user |-> NoUser,
     today |-> Null, found |-> FALSE, case_id |-> Null, task_completed_date |-> Null,
     current_case_start_date |-> Null, new_case_start_date |-> Null,
     start_date |-> Null, updates |-> {}, new_case_completed_date |-> Null,
     case_row_locked |-> FALSE, case_was_started_automatically |-> FALSE,
     returned |-> <<>>, written |-> <<>>, update_seq |-> 0, status_writes |-> {},
     due_writes |-> {}, aborted_at |-> ""]

\* Position changes: go on, call a function and come back.
Goto(s, label) == [s EXCEPT !.pc = label]
CallTo(s, label, return_to) == [s EXCEPT !.pc = label, !.stack = <<return_to>> \o @]
ReturnFrom(s) == [s EXCEPT !.pc = Head(s.stack), !.stack = Tail(@)]

\* The result of one statement: the store after it and the session after it.
After(S, s) == [cases |-> S.cases, tasks |-> S.tasks, session |-> s]

\* queries.py 235-242: SELECT the task row; return status, False without it.
details_sql_select(S, s) ==
    IF s.task_id \notin DOMAIN S.tasks
    THEN After(S, [s EXCEPT !.pc = "returned", !.found = FALSE,
                            !.returned = <<s.status, FALSE>>])
    ELSE After(S, [s EXCEPT !.pc = "details_sql_update", !.found = TRUE,
                            !.case_id = S.tasks[s.task_id].case_id,
                            !.task_completed_date = S.tasks[s.task_id].task_completed_date])

\* queries.py 244-265: the row is computed from the arguments and the
\* task_completed_date the SELECT returned; UPDATE ... WHERE task_id; commit.
\* db_update_case_dates_from_tasks(case_id) is next.
details_sql_update(S, s, seq) ==
    IF s.task_id \notin DOMAIN S.tasks
    THEN After(S, CallTo(s, "dates_sql_get_current_start", "details_final_case_info"))
    ELSE TheOne({
           After([cases |-> S.cases, tasks |-> [S.tasks EXCEPT ![s.task_id] = row]],
                 CallTo([s EXCEPT !.written = row, !.update_seq = seq],
                        "dates_sql_get_current_start", "details_final_case_info"))
           : row \in {updated_task(
                        [S.tasks[s.task_id] EXCEPT !.task_completed_date = s.task_completed_date],
                        s.name, s.status, s.start_date_input, s.completed_date_input,
                        s.new_due_date_input, s.updated_by_user, s.today)} })

\* queries.py 143-144: SELECT start_date FROM cases.
dates_sql_get_current_start(S, s) ==
    After(S, [s EXCEPT !.pc = "dates_sql_min_task_start",
                       !.current_case_start_date =
                           IF s.case_id \in DOMAIN S.cases
                           THEN S.cases[s.case_id].start_date ELSE Null])

\* Variant that keeps a start date the case already has.
dates_sql_min_task_start_keeping_current(S, s) ==
    TheOne({
      After(S, IF start # Null /\ start # s.current_case_start_date
               THEN CallTo([s EXCEPT !.new_case_start_date = start, !.start_date = start],
                           "due_sql_select", "dates_sql_incomplete_count")
               ELSE Goto([s EXCEPT !.new_case_start_date = start],
                         "dates_sql_incomplete_count"))
      : start \in {TheOne({IF s.current_case_start_date # Null
                           THEN s.current_case_start_date ELSE m
                           : m \in {SqlMin({S.tasks[t].task_start_date :
                                       t \in {u \in TasksOf(S.tasks, s.case_id) :
                                                S.tasks[u].status \in {"In Progress", "Completed"}}})} })} })

\* queries.py 146-153: SELECT MIN(task_start_date); the new start date; the
\* due dates are recomputed when it is a new one.
dates_sql_min_task_start(S, s) ==
    TheOne({
      After(S, IF start # Null /\ start # s.current_case_start_date
               THEN CallTo([s EXCEPT !.new_case_start_date = start, !.start_date = start],
                           "due_sql_select", "dates_sql_incomplete_count")
               ELSE Goto([s EXCEPT !.new_case_start_date = start],
                         "dates_sql_incomplete_count"))
      : start \in {TheOne({IF m # Null THEN m ELSE s.current_case_start_date
                           : m \in {SqlMin({S.tasks[t].task_start_date :
                                       t \in {u \in TasksOf(S.tasks, s.case_id) :
                                                S.tasks[u].status \in {"In Progress", "Completed"}}})} })} })

\* queries.py 173-178: SELECT task_id, day_offset ... WHERE day_offset IS NOT NULL.
due_sql_select(S, s) ==
    TheOne({
      After(S, IF updates = {}
               THEN ReturnFrom([s EXCEPT !.start_date = Null])
               ELSE Goto([s EXCEPT !.updates = updates], "due_sql_update"))
      : updates \in {{t \in TasksOf(S.tasks, s.case_id) : S.tasks[t].day_offset # Null}} })

\* queries.py 180-188: UPDATE tasks SET due_date WHERE task_id, for the rows
\* the SELECT returned; commit.
due_sql_update(S, s) ==
    After([cases |-> S.cases,
           tasks |-> [t \in DOMAIN S.tasks |->
                        IF t \in s.updates
                        THEN [S.tasks[t] EXCEPT !.due_date = s.start_date + S.tasks[t].day_offset]
                        ELSE S.tasks[t]]],
          ReturnFrom([s EXCEPT !.updates = {}, !.start_date = Null,
                               !.due_writes = @ \cup {<<t, s.start_date + S.tasks[t].day_offset>>
                                                        : t \in s.updates}]))

\* queries.py 155-156: SELECT COUNT(*) ... WHERE status != 'Completed'.
dates_sql_incomplete_count(S, s) ==
    After(S, IF Cardinality({t \in TasksOf(S.tasks, s.case_id) :
                                S.tasks[t].status # "Completed"}) = 0
             THEN Goto(s, "dates_sql_max_task_complete")
             ELSE Goto([s EXCEPT !.new_case_completed_date = Null], "dates_sql_update_case"))

\* queries.py 159-163: SELECT MAX(task_completed_date), or date.today().
dates_sql_max_task_complete(S, s, now) ==
    TheOne({
      After(S, Goto([s EXCEPT !.new_case_completed_date = IF m # Null THEN m ELSE now],
                    "dates_sql_update_case"))
      : m \in {SqlMax({S.tasks[t].task_completed_date :
                         t \in {u \in TasksOf(S.tasks, s.case_id) :
                                  S.tasks[u].status = "Completed"}})} })

\* Variant of the UPDATE that also resets the status of the case.
dates_sql_update_case_and_status(S, s) ==
    After([cases |-> [c \in DOMAIN S.cases |->
                        IF c = s.case_id
                        THEN [S.cases[c] EXCEPT !.start_date = s.new_case_start_date,
                                                !.completed_date = s.new_case_completed_date,
                                                !.status = "Not Started"]
                        ELSE S.cases[c]],
           tasks |-> S.tasks],
          ReturnFrom([s EXCEPT !.current_case_start_date = Null,
                               !.new_case_start_date = Null,
                               !.new_case_completed_date = Null]))

\* queries.py 165-169: UPDATE cases SET start_date, completed_date; commit.
dates_sql_update_case(S, s) ==
    After([cases |-> [c \in DOMAIN S.cases |->
                        IF c = s.case_id
                        THEN [S.cases[c] EXCEPT !.start_date = s.new_case_start_date,
                                                !.completed_date = s.new_case_completed_date]
                        ELSE S.cases[c]],
           tasks |-> S.tasks],
          ReturnFrom([s EXCEPT !.current_case_start_date = Null,
                               !.new_case_start_date = Null,
                               !.new_case_completed_date = Null]))

\* Variant that reports an automatic start whenever the case has a start date.
details_final_case_info_any_status(S, s) ==
    After(S, IF s.case_id \in DOMAIN S.cases /\ S.cases[s.case_id].start_date # Null
             THEN Goto([s EXCEPT !.case_was_started_automatically = TRUE], "status_case_info")
             ELSE Goto(s, "check_sql_incomplete"))

\* queries.py 267-271: db_fetch_single_case; a case that is still 'Not
\* Started' and has a start date is started:
\* db_update_case_status_and_start_date(case_id, 'In Progress').
details_final_case_info(S, s) ==
    After(S, IF /\ s.case_id \in DOMAIN S.cases
                /\ S.cases[s.case_id].status = "Not Started"
                /\ S.cases[s.case_id].start_date # Null
             THEN Goto([s EXCEPT !.case_was_started_automatically = TRUE], "status_case_info")
             ELSE Goto(s, "check_sql_incomplete"))

\* queries.py 192-196: db_fetch_single_case; return without the case.
status_case_info(S, s) ==
    After(S, IF s.case_id \notin DOMAIN S.cases THEN Goto(s, "check_sql_incomplete")
             ELSE IF S.cases[s.case_id].start_date = Null
             THEN Goto(s, "status_sql_update_start")
             ELSE Goto(s, "status_sql_update"))

\* The case status changes this statement makes, added to the log.
StatusWrite(S, s, status) ==
    IF s.case_id \in DOMAIN S.cases /\ S.cases[s.case_id].status # status
    THEN s.status_writes \cup {<<S.cases[s.case_id].status, status>>}
    ELSE s.status_writes

\* queries.py 203-208: UPDATE cases SET status; commit; then
\* db_update_case_dates_from_tasks(case_id).
status_sql_update(S, s) ==
    After([cases |-> [c \in DOMAIN S.cases |->
                        IF c = s.case_id THEN [S.cases[c] EXCEPT !.status = "In Progress"]
                        ELSE S.cases[c]],
           tasks |-> S.tasks],
          CallTo([s EXCEPT !.status_writes = StatusWrite(S, s, "In Progress")],
                 "dates_sql_get_current_start", "check_sql_incomplete"))

\* queries.py 199-202: UPDATE cases SET status, start_date = today is executed
\* and not yet committed: the row is locked against the UPDATEs of the other
\* sessions, who still read the old row.  db_calculate_and_set_task_due_dates
\* runs on its own connection in between.
status_sql_update_start(S, s, now) ==
    After(S, CallTo([s EXCEPT !.case_row_locked = TRUE, !.start_date = now],
                    "due_sql_select", "status_commit"))

\* queries.py 206: commit of the UPDATE of status and start date (the start
\* date is the local today of db_update_case_status_and_start_date); then
\* db_update_case_dates_from_tasks(case_id).
status_commit(S, s, now) ==
    After([cases |-> [c \in DOMAIN S.cases |->
                        IF c = s.case_id
                        THEN [S.cases[c] EXCEPT !.status = "In Progress", !.start_date = now]
                        ELSE S.cases[c]],
           tasks |-> S.tasks],
          CallTo([s EXCEPT !.case_row_locked = FALSE,
                           !.status_writes = StatusWrite(S, s, "In Progress")],
                 "dates_sql_get_current_start", "check_sql_incomplete"))

\* queries.py 212-216: SELECT COUNT(*) ... WHERE status != 'Completed'.
check_sql_incomplete(S, s) ==
    After(S, IF Cardinality({t \in TasksOf(S.tasks, s.case_id) :
                                S.tasks[t].status # "Completed"}) = 0
             THEN Goto(s, "check_sql_update_case")
             ELSE Goto(s, "details_sql_get_status"))

\* queries.py 217-221: UPDATE cases SET status = 'Completed'; commit; then
\* db_update_case_dates_from_tasks(case_id).
check_sql_update_case(S, s) ==
    After([cases |-> [c \in DOMAIN S.cases |->
                        IF c = s.case_id THEN [S.cases[c] EXCEPT !.status = "Completed"]
                        ELSE S.cases[c]],
           tasks |-> S.tasks],
          CallTo([s EXCEPT !.status_writes = StatusWrite(S, s, "Completed")],
                 "dates_sql_get_current_start", "details_sql_get_status"))

\* queries.py 277-281: SELECT status FROM tasks; return.
details_sql_get_status(S, s) ==
    After(S, [s EXCEPT !.pc = "returned",
                       !.returned = <<IF s.task_id \in DOMAIN S.tasks
                                      THEN S.tasks[s.task_id].status ELSE s.status,
                                      s.case_was_started_automatically>>])

\* The statements that UPDATE the case row.
CaseUpdates ==
    {"dates_sql_update_case", "status_sql_update", "status_sql_update_start",
     "check_sql_update_case"}

\* The statement at the position of the session.
statement(S, s, seq, now) ==
    CASE s.pc = "details_sql_select" -> details_sql_select(S, s)
      [] s.pc = "details_sql_update" -> details_sql_update(S, s, seq)
      [] s.pc = "dates_sql_get_current_start" -> dates_sql_get_current_start(S, s)
      [] s.pc = "dates_sql_min_task_start" -> dates_sql_min_task_start(S, s)
      [] s.pc = "due_sql_select" -> due_sql_select(S, s)
      [] s.pc = "due_sql_update" -> due_sql_update(S, s)
      [] s.pc = "dates_sql_incomplete_count" -> dates_sql_incomplete_count(S, s)
      [] s.pc = "dates_sql_max_task_complete" -> dates_sql_max_task_complete(S, s, now)
      [] s.pc = "dates_sql_update_case" -> dates_sql_update_case(S, s)
      [] s.pc = "details_final_case_info" -> details_final_case_info(S, s)
      [] s.pc = "status_case_info" -> status_case_info(S, s)
      [] s.pc = "status_sql_update" -> status_sql_update(S, s)
      [] s.pc = "status_sql_update_start" -> status_sql_update_start(S, s, now)
      [] s.pc = "status_commit" -> status_commit(S, s, now)
      [] s.pc = "check_sql_incomplete" -> check_sql_incomplete(S, s)
      [] s.pc = "check_sql_update_case" -> check_sql_update_case(S, s)
      [] s.pc = "details_sql_get_status" -> details_sql_get_status(S, s)

(* --------------------------- template expander ------------------------ *)
\* The template tasks the SELECT of db_populate_tasks_from_template returns.
TemplateRowsFor(case_type) ==
    {k \in DOMAIN task_templates :
        /\ task_templates[k].template_type_id \in DOMAIN template_types
        /\ template_types[task_templates[k].template_type_id].type_name = case_type}

\* The orders ORDER BY task_sequence may return the rows in: rows with equal
\* task_sequence come in either order.
SequenceOrders(R) ==
    {f \in [1..Cardinality(R) -> R] :
        /\ \A i, j \in 1..Cardinality(R) : i # j => f[i] # f[j]
        /\ \A i, j \in 1..Cardinality(R) :
              i < j => task_templates[f[i]].task_sequence <= task_templates[f[j]].task_sequence}

\* Variant that stamps the new task with a start date.
NewTask_started(case_id, tt) ==
    [case_id |-> case_id, task_name |-> tt.task_name, status |-> tt.default_status,
     day_offset |-> tt.day_offset, documents_required |-> tt.documents_required,
     due_date |-> Null, task_start_date |-> 1, task_completed_date |-> Null,
     last_updated_by |-> NoUser]

\* The task row inserted for one template task.
NewTask(case_id, tt) ==
    [case_id |-> case_id, task_name |-> tt.task_name, status |-> tt.default_status,
     day_offset |-> tt.day_offset, documents_required |-> tt.documents_required,
     due_date |-> Null, task_start_date |-> Null, task_completed_date |-> Null,
     last_updated_by |-> NoUser]

\* pandas reads a day_offset column that holds numbers and NULLs as floats,
\* the NULLs as NaN (a column of NULLs only stays None); the INSERT binds NaN
\* to the integer column day_offset, the statement raises and no task row is
\* committed.
populate_raises(R) ==
    /\ \E k \in R : task_templates[k].day_offset = Null
    /\ \E k \in R : task_templates[k].day_offset # Null

\* tasks after the bulk INSERT of the rows in order ord, first id first_id.
db_populate_tasks_from_template(T, case_id, ord, first_id) ==
    [t \in (DOMAIN T) \cup {first_id + i - 1 : i \in DOMAIN ord} |->
        IF t \in DOMAIN T THEN T[t]
        ELSE NewTask(case_id, task_templates[ord[t - first_id + 1]])]

(* ------------------------------- state -------------------------------- *)
EmptyTable == [k \in {} |-> Null]

\* What the last operation was: its name, the id it was called with, for
\* db_update_task_details whether the task row was found, whether a start date
\* was supplied and the returned "case was started automatically" flag, and
\* whether the operation raised.
NoOp(op, id) ==
    [op |-> op, id |-> id, found |-> FALSE, start_supplied |-> FALSE,
     started |-> FALSE, raised |-> FALSE]

Init ==
    /\ today = 1
    /\ cases = EmptyTable
    /\ tasks = EmptyTable
    /\ template_types = EmptyTable
    /\ task_templates = EmptyTable
    /\ case_remarks = EmptyTable
    /\ task_attachments = EmptyTable
    /\ upload_directory = EmptyTable
    /\ id_seq = [case |-> 1, task |-> 1, type |-> 1, template |-> 1,
                 remark |-> 1, attachment |-> 1]
    /\ last = NoOp("init", 0)
    /\ ever_in_progress = {}
    /\ sessions = [p \in SessionIds |-> Idle]

\* The cases whose status is In Progress in table C.
InProgressIn(C) == {c \in DOMAIN C : C[c].status = "In Progress"}

(* ------------------------------ actions ------------------------------- *)
\* date.today() moves on.
Tick ==
    /\ today < MaxDay
    /\ today' = today + 1
    /\ last' = NoOp("tick", 0)
    /\ UNCHANGED <<cases, tasks, template_types, task_templates, case_remarks,
                   task_attachments, upload_directory, id_seq, ever_in_progress, sessions>>

\* db_add_case (committed), then db_populate_tasks_from_template.
home_add_case(name, status, case_type) ==
    /\ id_seq.case <= MaxCases
    /\ LET new_case_id == id_seq.case
           R == TemplateRowsFor(case_type)
       IN \E ord \in SequenceOrders(R) :
            /\ cases' = With(cases, new_case_id,
                             [case_name |-> name, status |-> status, case_type |-> case_type,
                              start_date |-> Null, completed_date |-> Null])
            /\ IF populate_raises(R)
               THEN /\ tasks' = tasks
                    /\ id_seq' = [id_seq EXCEPT !.case = @ + 1]
                    /\ last' = [NoOp("home_add_case", new_case_id) EXCEPT !.raised = TRUE]
               ELSE /\ tasks' = db_populate_tasks_from_template(tasks, new_case_id, ord,
                                                                id_seq.task)
                    /\ id_seq' = [id_seq EXCEPT !.case = @ + 1, !.task = @ + Cardinality(R)]
                    /\ last' = NoOp("home_add_case", new_case_id)
            /\ ever_in_progress' = ever_in_progress \cup InProgressIn(cases')
    /\ UNCHANGED <<today, template_types, task_templates, case_remarks, task_attachments, upload_directory, sessions>>

\* Variant that also clears the start date of the case.
save_case_edit_clearing_start(case_id, name, status, case_type) ==
    /\ case_id \in DOMAIN cases
    /\ cases' = [cases EXCEPT ![case_id].case_name = name,
                              ![case_id].status = status,
                              ![case_id].case_type = case_type,
                              ![case_id].start_date = Null]
    /\ last' = NoOp("db_update_case", case_id)
    /\ ever_in_progress' = ever_in_progress \cup InProgressIn(cases')
    /\ UNCHANGED <<today, tasks, template_types, task_templates, case_remarks,
                   task_attachments, upload_directory, id_seq, sessions>>

\* db_update_case: name, status and type are overwritten, the dates are not touched.
save_case_edit(case_id, name, status, case_type) ==
    /\ case_id \in DOMAIN cases
    /\ cases' = [cases EXCEPT ![case_id].case_name = name,
                              ![case_id].status = status,
                              ![case_id].case_type = case_type]
    /\ last' = NoOp("db_update_case", case_id)
    /\ ever_in_progress' = ever_in_progress \cup InProgressIn(cases')
    /\ UNCHANGED <<today, tasks, template_types, task_templates, case_remarks,
                   task_attachments, upload_directory, id_seq, sessions>>

update_case_status(case_id, new_status) ==
    /\ case_id \in DOMAIN cases
    /\ \E S \in {db_update_case_status_and_start_date(
                    [cases |-> cases, tasks |-> tasks], case_id, new_status, today)} :
          /\ cases' = S.cases
          /\ tasks' = S.tasks
    /\ last' = [op |-> "db_update_case_status_and_start_date", id |-> case_id,
                found |-> TRUE, start_supplied |-> FALSE, started |-> FALSE,
                raised |-> FALSE, status |-> new_status]
    /\ ever_in_progress' = ever_in_progress \cup InProgressIn(cases')
    /\ UNCHANGED <<today, template_types, task_templates, case_remarks,
                   task_attachments, upload_directory, id_seq, sessions>>

\* The due date the handler passes on: only an Admin's is kept (app32.py 1187).
due_date_to_pass(user, new_due_date) ==
    IF privilege(user) = "Admin" THEN new_due_date ELSE Null

handle_edit_task_modal_actions(user, task_id, name, status, new_due_date, start_date, completed_date) ==
    /\ task_id \in 1..(id_seq.task - 1)
    /\ \E r \in {db_update_task_details(
                    [cases |-> cases, tasks |-> tasks], task_id, name, status, start_date,
                    completed_date, due_date_to_pass(user, new_due_date), user, today)} :
          /\ cases' = r.store.cases
          /\ tasks' = r.store.tasks
          /\ last' = [NoOp("db_update_task_details", task_id) EXCEPT
                        !.found = r.found, !.start_supplied = (start_date # Null),
                        !.started = r.started]
          /\ ever_in_progress' =
                ever_in_progress \cup InProgressIn(cases')
                   \cup (IF r.started THEN {tasks[task_id].case_id} ELSE {})
    /\ UNCHANGED <<today, template_types, task_templates, case_remarks,
                   task_attachments, upload_directory, id_seq, sessions>>

\* One call of db_update_task_details with any task id, existing or not, with
\* what it was given and what it returned.
db_update_task_details_call(task_id, name, status, start_date_input, completed_date_input, new_due_date_input, updated_by_user) ==
    /\ task_id \in 1..id_seq.task
    /\ \E r \in {db_update_task_details(
                    [cases |-> cases, tasks |-> tasks], task_id, name, status,
                    start_date_input, completed_date_input, new_due_date_input,
                    updated_by_user, today)} :
          /\ cases' = r.store.cases
          /\ tasks' = r.store.tasks
          /\ last' = [op |-> "db_update_task_details", id |-> task_id, found |-> r.found,
                      start_supplied |-> (start_date_input # Null), started |-> r.started,
                      raised |-> FALSE, status |-> status,
                      start_date_input |-> start_date_input,
                      completed_date_input |-> completed_date_input,
                      returned |-> <<r.status, r.started>>]
          /\ ever_in_progress' =
                ever_in_progress \cup InProgressIn(cases')
                   \cup (IF r.started THEN {tasks[task_id].case_id} ELSE {})
    /\ UNCHANGED <<today, template_types, task_templates, case_remarks,
                   task_attachments, upload_directory, id_seq, sessions>>

\* A session is inside a call of db_update_task_details.
InCall(p) == sessions[p].pc \notin {"idle", "returned", "aborted"}

\* The most calls one session makes.
MaxCalls == 2

\* A session calls db_update_task_details: date.today() is read (queries.py
\* 228), nothing is read from or written to the store yet.
db_update_task_details_begin(p, task_id, name, status, start_date_input, completed_date_input, new_due_date_input, updated_by_user) ==
    /\ ~InCall(p)
    /\ sessions[p].calls < MaxCalls
    /\ sessions' = [sessions EXCEPT ![p] =
                      [Idle EXCEPT !.pc = "details_sql_select",
                                   !.calls = sessions[p].calls + 1,
                                   !.task_id = task_id, !.name = name, !.status = status,
                                   !.start_date_input = start_date_input,
                                   !.completed_date_input = completed_date_input,
                                   !.new_due_date_input = new_due_date_input,
                                   !.updated_by_user = updated_by_user,
                                   !.today = today]]
    /\ UNCHANGED <<today, cases, tasks, template_types, task_templates, case_remarks,
                   task_attachments, upload_directory, id_seq, last, ever_in_progress>>

\* The next statement of the call of session p.  An UPDATE of the case row
\* waits while another session holds the lock on the row.
db_update_task_details_step(p) ==
    /\ InCall(p)
    /\ sessions[p].pc \in CaseUpdates
          => \A q \in SessionIds \ {p} : ~sessions[q].case_row_locked
    /\ \E r \in {statement([cases |-> cases, tasks |-> tasks], sessions[p],
                           1 + SetMax({sessions[q].update_seq : q \in SessionIds}), today)} :
          /\ cases' = r.cases
          /\ tasks' = r.tasks
          /\ sessions' = [sessions EXCEPT ![p] = r.session]
          /\ last' = IF r.session.pc = "returned"
                     THEN [op |-> "db_update_task_details", id |-> r.session.task_id,
                           found |-> r.session.found,
                           start_supplied |-> (r.session.start_date_input # Null),
                           started |-> r.session.returned[2], raised |-> FALSE,
                           status |-> r.session.status,
                           start_date_input |-> r.session.start_date_input,
                           completed_date_input |-> r.session.completed_date_input,
                           returned |-> r.session.returned]
                     ELSE last
          /\ ever_in_progress' = ever_in_progress \cup InProgressIn(cases')
    /\ UNCHANGED <<today, template_types, task_templates, case_remarks,
                   task_attachments, upload_directory, id_seq>>

\* The call of session p stops where it is, after its task UPDATE was
\* committed: the connection is lost or the process is killed.  What was
\* committed stays; an open transaction is rolled back.
db_update_task_details_aborts(p) ==
    /\ InCall(p)
    /\ sessions[p].pc \notin {"details_sql_select", "details_sql_update"}
    /\ sessions' = [sessions EXCEPT ![p] =
                      [@ EXCEPT !.pc = "aborted", !.aborted_at = sessions[p].pc,
                                !.stack = <<>>, !.case_row_locked = FALSE,
                                !.current_case_start_date = Null,
                                !.new_case_start_date = Null, !.start_date = Null,
                                !.updates = {}, !.new_case_completed_date = Null]]
    /\ last' = [NoOp("db_update_task_details", sessions[p].task_id) EXCEPT !.raised = TRUE]
    /\ UNCHANGED <<today, cases, tasks, template_types, task_templates, case_remarks,
                   task_attachments, upload_directory, id_seq, ever_in_progress>>

\* Rows that reference the case: its remarks, and the attachments of its tasks.
RemarksOf(case_id) == {r \in DOMAIN case_remarks : case_remarks[r].case_id = case_id}
AttachmentsOf(case_id) ==
    {a \in DOMAIN task_attachments : task_attachments[a].task_id \in TasksOf(tasks, case_id)}

\* db_delete_case deletes the tasks, then the case, in one transaction.  The
\* foreign keys of models.py (task_attachments.task_id, case_remarks.case_id)
\* have no ON DELETE rule: a DELETE that would orphan a row raises, and the
\* connection is closed without a commit.
db_delete_case_raises(case_id) == AttachmentsOf(case_id) # {} \/ RemarksOf(case_id) # {}

confirm_case_delete(case_id) ==
    /\ case_id \in DOMAIN cases
    /\ IF db_delete_case_raises(case_id)
       THEN /\ UNCHANGED <<cases, tasks>>
            /\ last' = [NoOp("db_delete_case", case_id) EXCEPT !.raised = TRUE]
       ELSE /\ tasks' = Without(tasks, TasksOf(tasks, case_id))
            /\ cases' = Without(cases, {case_id})
            /\ last' = NoOp("db_delete_case", case_id)
    /\ UNCHANGED <<today, template_types, task_templates, case_remarks,
                   task_attachments, upload_directory, id_seq, ever_in_progress, sessions>>

\* db_add_remark
add_remark_to_case(case_id, user) ==
    /\ id_seq.remark <= MaxRemarks
    /\ case_id \in DOMAIN cases
    /\ case_remarks' = With(case_remarks, id_seq.remark,
                            [case_id |-> case_id, user_name |-> user])
    /\ id_seq' = [id_seq EXCEPT !.remark = @ + 1]
    /\ last' = NoOp("db_add_remark", case_id)
    /\ UNCHANGED <<today, cases, tasks, template_types, task_templates,
                   task_attachments, upload_directory, ever_in_progress, sessions>>

\* The file is written under a fresh stored_filename (here the attachment id),
\* then db_add_attachment inserts the row.
handle_file_upload(task_id, user) ==
    /\ id_seq.attachment <= MaxAttachments
    /\ task_id \in DOMAIN tasks
    /\ upload_directory' = With(upload_directory, id_seq.attachment, "file")
    /\ task_attachments' = With(task_attachments, id_seq.attachment,
                                [task_id |-> task_id, uploaded_by |-> user])
    /\ id_seq' = [id_seq EXCEPT !.attachment = @ + 1]
    /\ last' = NoOp("db_add_attachment", task_id)
    /\ UNCHANGED <<today, cases, tasks, template_types, task_templates,
                   case_remarks, ever_in_progress, sessions>>

\* Something other than the program removes a stored file.
file_removed_outside(stored_filename) ==
    /\ stored_filename \in DOMAIN upload_directory
    /\ upload_directory' = Without(upload_directory, {stored_filename})
    /\ last' = NoOp("file_removed_outside", stored_filename)
    /\ UNCHANGED <<today, cases, tasks, template_types, task_templates, case_remarks,
                   task_attachments, id_seq, ever_in_progress, sessions>>

\* A stored file becomes one that os.remove cannot remove: it is in use, or
\* its directory is no longer writable.
file_made_undeletable(stored_filename) ==
    /\ stored_filename \in DOMAIN upload_directory
    /\ upload_directory[stored_filename] = "file"
    /\ upload_directory' = [upload_directory EXCEPT ![stored_filename] = "undeletable"]
    /\ last' = NoOp("file_made_undeletable", stored_filename)
    /\ UNCHANGED <<today, cases, tasks, template_types, task_templates, case_remarks,
                   task_attachments, id_seq, ever_in_progress, sessions>>

\* os.remove(file_path) raises: nothing catches it in db_delete_attachment.
os_remove_raises(stored_filename) ==
    /\ stored_filename \in DOMAIN upload_directory
    /\ upload_directory[stored_filename] = "undeletable"

\* db_delete_attachment: the stored file is removed if os.path.exists finds it,
\* then the row is deleted.
handle_file_delete(attachment_id) ==
    /\ attachment_id \in DOMAIN task_attachments
    /\ IF os_remove_raises(attachment_id)
       THEN /\ UNCHANGED <<task_attachments, upload_directory>>
            /\ last' = [NoOp("db_delete_attachment", attachment_id) EXCEPT !.raised = TRUE]
       ELSE /\ upload_directory' = Without(upload_directory, {attachment_id})
            /\ task_attachments' = Without(task_attachments, {attachment_id})
            /\ last' = NoOp("db_delete_attachment", attachment_id)
    /\ UNCHANGED <<today, cases, tasks, template_types, task_templates,
                   case_remarks, id_seq, ever_in_progress, sessions>>

(* ------------------------------- views -------------------------------- *)
\* The views format a stored timestamp as 'YYYY-MM-DD' text and the classifiers
\* parse the text back with pd.to_datetime(...).date(): the day of a stored
\* midnight value comes back unchanged, NULL comes back as None.

\* Variant that counts a task due today as overdue.
calculate_task_performance_due_today_overdue(status, due_date_str, task_completed_date_str, now) ==
    IF status = "Completed"
    THEN IF due_date_str # Null /\ task_completed_date_str # Null
         THEN (IF task_completed_date_str <= due_date_str
               THEN "Completed On Time" ELSE "Completed Late")
         ELSE "Completed On Time"
    ELSE IF status \in {"Not Started", "On Hold"}
    THEN IF due_date_str # Null
         THEN (IF due_date_str <= now THEN "Overdue" ELSE "Pending")
         ELSE "Pending"
    ELSE IF status = "In Progress"
    THEN IF due_date_str # Null
         THEN (IF due_date_str <= now THEN "Overdue" ELSE "On Time")
         ELSE "On Time"
    ELSE "Pending"

\* utils/performance.py calculate_task_performance; now is date.today().
calculate_task_performance(status, due_date_str, task_completed_date_str, now) ==
    IF status = "Completed"
    THEN IF due_date_str # Null /\ task_completed_date_str # Null
         THEN (IF task_completed_date_str <= due_date_str
               THEN "Completed On Time" ELSE "Completed Late")
         ELSE "Completed On Time"
    ELSE IF status \in {"Not Started", "On Hold"}
    THEN IF due_date_str # Null
         THEN (IF due_date_str < now THEN "Overdue" ELSE "Pending")
         ELSE "Pending"
    ELSE IF status = "In Progress"
    THEN IF due_date_str # Null
         THEN (IF due_date_str < now THEN "Overdue" ELSE "On Time")
         ELSE "On Time"
    ELSE "Pending"

\* utils/performance.py calculate_case_performance.
calculate_case_performance(status, case_due_date_str, completed_date_str, overdue_tasks_count) ==
    IF status = "Completed"
    THEN IF case_due_date_str # Null /\ completed_date_str # Null
         THEN (IF completed_date_str <= case_due_date_str
               THEN "Completed On Time" ELSE "Completed Late")
         ELSE "Completed On Time"
    ELSE IF status \in {"Not Started", "On Hold"} THEN "Pending"
    ELSE IF status = "In Progress"
    THEN (IF overdue_tasks_count > 0 THEN "Overdue" ELSE "On Time")
    ELSE "Pending"

\* Variant that takes the earliest due date of the tasks as the case due date.
case_due_date_earliest(T, case_id) == SqlMin({T[t].due_date : t \in TasksOf(T, case_id)})

\* (SELECT MAX(t_sub.due_date) FROM tasks t_sub WHERE t_sub.case_id = c.case_id)
case_due_date(T, case_id) == SqlMax({T[t].due_date : t \in TasksOf(T, case_id)})

\* COUNT(t.task_id) FILTER (WHERE t.due_date < CURRENT_DATE AND t.status != 'Completed');
\* a NULL due_date is not less than anything.
overdue_tasks_count(T, case_id, now) ==
    Cardinality({t \in TasksOf(T, case_id) :
                    T[t].due_date # Null /\ T[t].due_date < now /\ T[t].status # "Completed"})

\* The performance column of db_fetch_all_cases, one label for each case.
db_fetch_all_cases ==
    /\ last' = [op |-> "db_fetch_all_cases", id |-> 0,
                performance |->
                   [c \in DOMAIN cases |->
                       calculate_case_performance(
                           cases[c].status, case_due_date(tasks, c), cases[c].completed_date,
                           overdue_tasks_count(tasks, c, today))]]
    /\ UNCHANGED <<today, cases, tasks, template_types, task_templates, case_remarks,
                   task_attachments, upload_directory, id_seq, ever_in_progress, sessions>>

\* The performance column of db_fetch_tasks_for_case, one label for each task.
db_fetch_tasks_for_case(case_id) ==
    /\ last' = [op |-> "db_fetch_tasks_for_case", id |-> case_id,
                performance |->
                   [t \in TasksOf(tasks, case_id) |->
                       calculate_task_performance(
                           tasks[t].status, tasks[t].due_date, tasks[t].task_completed_date,
                           today)]]
    /\ UNCHANGED <<today, cases, tasks, template_types, task_templates, case_remarks,
                   task_attachments, upload_directory, id_seq, ever_in_progress, sessions>>

\* One call of calculate_task_performance, with what it was given and returned.
calculate_task_performance_call(status, due_date_str, task_completed_date_str) ==
    /\ last' = [op |-> "calculate_task_performance", id |-> 0, status |-> status,
                due_date_str |-> due_date_str,
                task_completed_date_str |-> task_completed_date_str,
                performance |-> calculate_task_performance(
                                    status, due_date_str, task_completed_date_str, today)]
    /\ UNCHANGED <<today, cases, tasks, template_types, task_templates, case_remarks,
                   task_attachments, upload_directory, id_seq, ever_in_progress, sessions>>

(* --------------------------- template actions ------------------------- *)
\* db_add_template_type: ON CONFLICT (type_name) DO NOTHING.
add_template_type(type_name) ==
    /\ id_seq.type <= MaxTemplateTypes
    /\ IF \E k \in DOMAIN template_types : template_types[k].type_name = type_name
       THEN UNCHANGED <<template_types, id_seq>>
       ELSE /\ template_types' = With(template_types, id_seq.type, [type_name |-> type_name])
            /\ id_seq' = [id_seq EXCEPT !.type = @ + 1]
    /\ last' = NoOp("db_add_template_type", 0)
    /\ UNCHANGED <<today, cases, tasks, task_templates, case_remarks,
                   task_attachments, upload_directory, ever_in_progress, sessions>>

\* Variant that deletes the type and leaves its template tasks behind.
confirm_template_delete_type_only(template_type_id) ==
    /\ template_type_id \in DOMAIN template_types
    /\ template_types' = Without(template_types, {template_type_id})
    /\ last' = NoOp("db_delete_template_type", template_type_id)
    /\ UNCHANGED <<today, cases, tasks, task_templates, case_remarks, task_attachments, upload_directory,
                   id_seq, ever_in_progress, sessions>>

\* db_delete_template_type: the template tasks of the type, then the type.
confirm_template_delete(template_type_id) ==
    /\ template_type_id \in DOMAIN template_types
    /\ task_templates' =
          Without(task_templates,
                  {k \in DOMAIN task_templates :
                      task_templates[k].template_type_id = template_type_id})
    /\ template_types' = Without(template_types, {template_type_id})
    /\ last' = NoOp("db_delete_template_type", template_type_id)
    /\ UNCHANGED <<today, cases, tasks, case_remarks, task_attachments, upload_directory, id_seq,
                   ever_in_progress, sessions>>

\* db_add_task_to_template
db_add_task_to_template(template_type_id, seq, name, status, offset, documents) ==
    /\ id_seq.template <= MaxTemplateTasks
    /\ template_type_id \in DOMAIN template_types
    /\ task_templates' =
          With(task_templates, id_seq.template,
               [template_type_id |-> template_type_id, task_sequence |-> seq,
                task_name |-> name, default_status |-> status, day_offset |-> offset,
                documents_required |-> documents])
    /\ id_seq' = [id_seq EXCEPT !.template = @ + 1]
    /\ last' = NoOp("db_add_task_to_template", template_type_id)
    /\ UNCHANGED <<today, cases, tasks, template_types, case_remarks,
                   task_attachments, upload_directory, ever_in_progress, sessions>>

\* db_delete_task_from_template
db_delete_task_from_template(task_template_id) ==
    /\ task_template_id \in DOMAIN task_templates
    /\ task_templates' = Without(task_templates, {task_template_id})
    /\ last' = NoOp("db_delete_task_from_template", task_template_id)
    /\ UNCHANGED <<today, cases, tasks, template_types, case_remarks,
                   task_attachments, upload_directory, id_seq, ever_in_progress, sessions>>

\* Admin only; the add button or the delete cell of the template table.
handle_template_task_actions(user) ==
    /\ privilege(user) = "Admin"
    /\ \/ \E tt \in DOMAIN template_types, seq \in Sequences123, name \in TaskNames,
            status \in NewCaseStatuses, offset \in Offsets, documents \in Documents :
            db_add_task_to_template(tt, seq, name, status, offset, documents)
       \/ \E k \in DOMAIN task_templates : db_delete_task_from_template(k)

\* db_update_task_template: one whitelisted column of one template task; the
\* table cell is free text, so default_status takes any status.
handle_template_task_edit(task_template_id, column, value) ==
    /\ task_template_id \in DOMAIN task_templates
    /\ column \in {"task_sequence", "default_status", "day_offset"}
    /\ value # task_templates[task_template_id][column]
    /\ task_templates' = [task_templates EXCEPT ![task_template_id][column] = value]
    /\ last' = NoOp("db_update_task_template", task_template_id)
    /\ UNCHANGED <<today, cases, tasks, template_types, case_remarks,
                   task_attachments, upload_directory, id_seq, ever_in_progress, sessions>>

(* --------------------------- specifications --------------------------- *)
Next ==
    \/ Tick
    \/ \E name \in CaseNames, status \in NewCaseStatuses, case_type \in TypeNames :
          home_add_case(name, status, case_type)
    \/ \E c \in DOMAIN cases, name \in CaseNames, status \in Statuses, case_type \in TypeNames :
          save_case_edit(c, name, status, case_type)
    \/ \E c \in DOMAIN cases, status \in Statuses : update_case_status(c, status)
    \/ \E user \in Users, t \in 1..(id_seq.task - 1), name \in TaskNames, status \in Statuses,
          due \in OptDays, start \in OptDays, completed \in OptDays :
          handle_edit_task_modal_actions(user, t, name, status, due, start, completed)
    \/ \E c \in DOMAIN cases : confirm_case_delete(c)
    \/ \E c \in DOMAIN cases, user \in Users : add_remark_to_case(c, user)
    \/ \E t \in DOMAIN tasks, user \in Users : handle_file_upload(t, user)
    \/ \E a \in DOMAIN task_attachments : handle_file_delete(a)
    \/ \E f \in DOMAIN upload_directory : file_removed_outside(f)
    \/ \E f \in DOMAIN upload_directory : file_made_undeletable(f)
    \/ \E type_name \in TypeNames : add_template_type(type_name)
    \/ \E tt \in DOMAIN template_types : confirm_template_delete(tt)
    \/ \E user \in Users : handle_template_task_actions(user)
    \/ \E k \in DOMAIN task_templates :
          \/ \E value \in Sequences123 : handle_template_task_edit(k, "task_sequence", value)
          \/ \E value \in Statuses : handle_template_task_edit(k, "default_status", value)
          \/ \E value \in Offsets : handle_template_task_edit(k, "day_offset", value)
    \/ db_fetch_all_cases
    \/ \E c \in DOMAIN cases : db_fetch_tasks_for_case(c)
    \/ \E status \in ClassifierStatuses, due \in OptDays, completed \in OptDays :
          calculate_task_performance_call(status, due, completed)
    \/ \E user \in Users, t \in 1..id_seq.task, name \in TaskNames, status \in Statuses,
          due \in OptDays, start \in OptDays, completed \in OptDays :
          db_update_task_details_call(t, name, status, start, completed, due, user)
    \/ \E p \in SessionIds, user \in Users, t \in 1..id_seq.task, name \in TaskNames,
          status \in Statuses, due \in OptDays, start \in OptDays, completed \in OptDays :
          db_update_task_details_begin(p, t, name, status, start, completed, due, user)
    \/ \E p \in SessionIds : db_update_task_details_step(p)
    \/ \E p \in SessionIds : db_update_task_details_aborts(p)

Spec == Init /\ [][Next]_vars

(***************************************************************************)
(* The state space of Spec is the product of the template tables, the      *)
(* tasks, the remarks and the attachments.  The specifications below are    *)
(* restrictions of Spec (each of their steps is a Next step) that explore   *)
(* one part of it exhaustively.                                             *)
(***************************************************************************)

\* Template management, case creation and explicit case status changes.
NextTemplates ==
    \/ \E name \in CaseNames, status \in NewCaseStatuses, case_type \in TypeNames :
          home_add_case(name, status, case_type)
    \/ \E c \in DOMAIN cases, status \in Statuses : update_case_status(c, status)
    \/ \E type_name \in TypeNames : add_template_type(type_name)
    \/ \E tt \in DOMAIN template_types : confirm_template_delete(tt)
    \/ \E user \in Users : handle_template_task_actions(user)
    \/ \E k \in DOMAIN task_templates :
          \/ \E value \in Sequences123 : handle_template_task_edit(k, "task_sequence", value)
          \/ \E value \in Statuses : handle_template_task_edit(k, "default_status", value)
          \/ \E value \in Offsets : handle_template_task_edit(k, "day_offset", value)

SpecTemplates == Init /\ [][NextTemplates]_vars

(* The store after the administrator has defined the Litigation type and  *)
(* its checklist; SpecTemplates reaches each of these checklists.          *)
LitigationType == 1 :> [type_name |-> "Litigation"]

ChecklistEntry(seq, offset) ==
    [template_type_id |-> 1, task_sequence |-> seq, task_name |-> "task",
     default_status |-> "Not Started", day_offset |-> offset,
     documents_required |-> "docs"]

OneTaskChecklist == 1 :> ChecklistEntry(1, 1)
OffsetChecklist == (1 :> ChecklistEntry(1, 1)) @@ (2 :> ChecklistEntry(2, 1))
NoOffsetChecklist == (1 :> ChecklistEntry(1, Null)) @@ (2 :> ChecklistEntry(2, Null))

InitWith(checklists) ==
    /\ today = 1
    /\ cases = EmptyTable
    /\ tasks = EmptyTable
    /\ template_types = LitigationType
    /\ task_templates \in checklists
    /\ case_remarks = EmptyTable
    /\ task_attachments = EmptyTable
    /\ upload_directory = EmptyTable
    /\ id_seq = [case |-> 1, task |-> 1, type |-> 2,
                 template |-> Cardinality(DOMAIN task_templates) + 1,
                 remark |-> 1, attachment |-> 1]
    /\ last = NoOp("init", 0)
    /\ ever_in_progress = {}
    /\ sessions = [p \in SessionIds |-> Idle]

\* The due dates an administrator types in the slices below.
DueInputs == {Null, MaxDay}

\* A case with two tasks, edited by an administrator on one day.
NextLifecycle ==
    \/ \E name \in CaseNames, status \in NewCaseStatuses, case_type \in TypeNames :
          home_add_case(name, status, case_type)
    \/ \E c \in DOMAIN cases, name \in CaseNames, status \in Statuses, case_type \in TypeNames :
          save_case_edit(c, name, status, case_type)
    \/ \E c \in DOMAIN cases, status \in Statuses : update_case_status(c, status)
    \/ \E t \in 1..(id_seq.task - 1), name \in TaskNames, status \in Statuses,
          due \in DueInputs, start \in OptDays, completed \in OptDays :
          handle_edit_task_modal_actions("admin", t, name, status, due, start, completed)

SpecLifecycle == InitWith({OffsetChecklist, NoOffsetChecklist}) /\ [][NextLifecycle]_vars

\* A case with one task, edited by an administrator and by a plain user,
\* while the days pass.
NextActors ==
    \/ Tick
    \/ \E name \in CaseNames, status \in NewCaseStatuses, case_type \in TypeNames :
          home_add_case(name, status, case_type)
    \/ \E c \in DOMAIN cases, name \in CaseNames, status \in Statuses, case_type \in TypeNames :
          save_case_edit(c, name, status, case_type)
    \/ \E c \in DOMAIN cases, status \in Statuses : update_case_status(c, status)
    \/ \E user \in Users, t \in 1..(id_seq.task - 1), name \in TaskNames, status \in Statuses,
          due \in OptDays, start \in OptDays, completed \in OptDays :
          handle_edit_task_modal_actions(user, t, name, status, due, start, completed)

SpecActors == InitWith({OneTaskChecklist}) /\ [][NextActors]_vars

\* A case with one task, its remarks and attachments, and its deletion.
NextDelete ==
    \/ \E name \in CaseNames, status \in NewCaseStatuses, case_type \in TypeNames :
          home_add_case(name, status, case_type)
    \/ \E c \in DOMAIN cases, status \in Statuses : update_case_status(c, status)
    \/ \E c \in DOMAIN cases : confirm_case_delete(c)
    \/ \E c \in DOMAIN cases, user \in Users : add_remark_to_case(c, user)
    \/ \E t \in DOMAIN tasks, user \in Users : handle_file_upload(t, user)
    \/ \E a \in DOMAIN task_attachments : handle_file_delete(a)

SpecDelete == InitWith({OneTaskChecklist}) /\ [][NextDelete]_vars

\* The task classifier on every input, and the task table of a new case.
NextClassifier ==
    \/ Tick
    \/ \E name \in CaseNames, status \in NewCaseStatuses, case_type \in TypeNames :
          home_add_case(name, status, case_type)
    \/ \E c \in DOMAIN cases : db_fetch_tasks_for_case(c)
    \/ \E status \in ClassifierStatuses, due \in OptDays, completed \in OptDays :
          calculate_task_performance_call(status, due, completed)

SpecClassifier == InitWith({OneTaskChecklist}) /\ [][NextClassifier]_vars

\* A case with two tasks without day_offset, their due and completed dates set
\* by an administrator while the days pass, and the case list.
NextViews ==
    \/ Tick
    \/ \E name \in CaseNames, status \in NewCaseStatuses, case_type \in TypeNames :
          home_add_case(name, status, case_type)
    \/ \E c \in DOMAIN cases, status \in Statuses : update_case_status(c, status)
    \/ \E t \in 1..(id_seq.task - 1), name \in TaskNames, status \in Statuses,
          due \in OptDays, completed \in OptDays :
          handle_edit_task_modal_actions("admin", t, name, status, due, Null, completed)
    \/ db_fetch_all_cases

SpecViews == InitWith({NoOffsetChecklist}) /\ [][NextViews]_vars

\* A case with one task while the days pass, and calls of
\* db_update_task_details with the id of its task or with an id no task has.
NextTaskCalls ==
    \/ Tick
    \/ \E name \in CaseNames, status \in NewCaseStatuses, case_type \in TypeNames :
          home_add_case(name, status, case_type)
    \/ \E c \in DOMAIN cases, status \in Statuses : update_case_status(c, status)
    \/ \E t \in 1..id_seq.task, name \in TaskNames, status \in Statuses,
          start \in OptDays, completed \in OptDays :
          db_update_task_details_call(t, name, status, start, completed, Null, "admin")

SpecTaskCalls == InitWith({OneTaskChecklist}) /\ [][NextTaskCalls]_vars

\* A case with one task, the files attached to it and what happens to them
\* on disk.
NextAttachments ==
    \/ \E name \in CaseNames, status \in NewCaseStatuses, case_type \in TypeNames :
          home_add_case(name, status, case_type)
    \/ \E c \in DOMAIN cases, status \in Statuses : update_case_status(c, status)
    \/ \E t \in DOMAIN tasks, user \in Users : handle_file_upload(t, user)
    \/ \E a \in DOMAIN task_attachments : handle_file_delete(a)
    \/ \E f \in DOMAIN upload_directory : file_removed_outside(f)
    \/ \E f \in DOMAIN upload_directory : file_made_undeletable(f)

SpecAttachments == InitWith({OneTaskChecklist}) /\ [][NextAttachments]_vars

\* A case type with no checklist entries yet.
EmptyChecklist == EmptyTable

\* A case with two tasks, or with none, whose status is changed and whose
\* tasks are completed and reopened while the days pass.
NextCaseDates ==
    \/ Tick
    \/ \E name \in CaseNames, status \in NewCaseStatuses, case_type \in TypeNames :
          home_add_case(name, status, case_type)
    \/ \E c \in DOMAIN cases, status \in Statuses : update_case_status(c, status)
    \/ \E t \in 1..(id_seq.task - 1), name \in TaskNames, status \in Statuses,
          completed \in OptDays :
          handle_edit_task_modal_actions("admin", t, name, status, Null, Null, completed)

SpecCaseDates == InitWith({NoOffsetChecklist, EmptyChecklist}) /\ [][NextCaseDates]_vars

\* A new case with two tasks that is touched by db_update_task_details only:
\* no explicit edit of the case or of its status.
NextTaskEdits ==
    \/ Tick
    \/ \E name \in CaseNames, status \in NewCaseStatuses, case_type \in TypeNames :
          home_add_case(name, status, case_type)
    \/ \E t \in 1..id_seq.task, name \in TaskNames, status \in Statuses,
          start \in OptDays, completed \in OptDays :
          db_update_task_details_call(t, name, status, start, completed, Null, "admin")

SpecTaskEdits == InitWith({NoOffsetChecklist}) /\ [][NextTaskEdits]_vars

\* A case with two tasks whose start dates and statuses are edited, and
\* whose own status is changed.
NextStartDates ==
    \/ \E name \in CaseNames, status \in NewCaseStatuses, case_type \in TypeNames :
          home_add_case(name, status, case_type)
    \/ \E c \in DOMAIN cases, status \in Statuses : update_case_status(c, status)
    \/ \E t \in 1..(id_seq.task - 1), name \in TaskNames, status \in Statuses,
          start \in OptDays :
          handle_edit_task_modal_actions("admin", t, name, status, Null, start, Null)

SpecStartDates == InitWith({NoOffsetChecklist}) /\ [][NextStartDates]_vars

\* The completed dates typed in the slices below.
CompletedInputs == {Null, MaxDay}

\* One session calls db_update_task_details on the tasks of a case, one call
\* after the other, each call statement by statement; the case itself is
\* edited between the calls.
NextStatements ==
    \/ \E name \in CaseNames, status \in NewCaseStatuses, case_type \in TypeNames :
          home_add_case(name, status, case_type)
    \/ \E c \in DOMAIN cases, name \in CaseNames, status \in Statuses, case_type \in TypeNames :
          ~InCall(1) /\ save_case_edit(c, name, status, case_type)
    \/ \E t \in 1..(id_seq.task - 1), name \in TaskNames, status \in Statuses,
          start \in OptDays, completed \in CompletedInputs :
          db_update_task_details_begin(1, t, name, status, start, completed, Null, "admin")
    \/ db_update_task_details_step(1)

SpecStatements == InitWith({OffsetChecklist, NoOffsetChecklist}) /\ [][NextStatements]_vars

\* Session 1 calls db_update_task_details on a task of a new case and the call
\* stops after the task UPDATE; session 2 then makes the next call on a task
\* of the case.
NextRecovery ==
    \/ \E name \in CaseNames, status \in NewCaseStatuses, case_type \in TypeNames :
          home_add_case(name, status, case_type)
    \/ \E t \in 1..(id_seq.task - 1), name \in TaskNames, status \in Statuses,
          start \in OptDays, completed \in CompletedInputs :
          /\ sessions[1].calls = 0
          /\ db_update_task_details_begin(1, t, name, status, start, completed, Null, "admin")
    \/ db_update_task_details_step(1)
    \/ db_update_task_details_aborts(1)
    \/ \E t \in 1..(id_seq.task - 1), name \in TaskNames, status \in Statuses,
          start \in OptDays, completed \in CompletedInputs :
          /\ sessions[1].pc = "aborted"
          /\ sessions[2].calls = 0
          /\ db_update_task_details_begin(2, t, name, status, start, completed, Null, "user")
    \/ db_update_task_details_step(2)

SpecRecovery == InitWith({OffsetChecklist}) /\ [][NextRecovery]_vars

\* Two sessions each call db_update_task_details once on the one task of a
\* case; the statements of the two calls interleave.
NextSameTask ==
    \/ \E name \in CaseNames, status \in NewCaseStatuses, case_type \in TypeNames :
          home_add_case(name, status, case_type)
    \/ \E name \in TaskNames, status \in Statuses, start \in {Null, 1} :
          /\ sessions[1].calls = 0 /\ 1 \in DOMAIN tasks
          /\ db_update_task_details_begin(1, 1, name, status, start, Null, Null, "admin")
    \/ \E name \in TaskNames, status \in Statuses, due \in DueInputs :
          /\ sessions[2].calls = 0 /\ 1 \in DOMAIN tasks
          /\ db_update_task_details_begin(2, 1, name, status, Null, Null, due, "user")
    \/ db_update_task_details_step(1)
    \/ db_update_task_details_step(2)

SpecSameTask == InitWith({OneTaskChecklist}) /\ [][NextSameTask]_vars

\* Tasks of a case are completed one call at a time; then two sessions each
\* call db_update_task_details once, session 1 on the first task and session 2
\* on the second, and the statements of the two calls interleave.
NextTwoTasks ==
    \/ \E name \in CaseNames, status \in NewCaseStatuses, case_type \in TypeNames :
          home_add_case(name, status, case_type)
    \/ \E t \in DOMAIN tasks, name \in TaskNames :
          /\ \A p \in SessionIds : sessions[p].calls = 0
          /\ db_update_task_details_call(t, name, "Completed", Null, Null, Null, "admin")
    \/ \E name \in TaskNames, status \in Statuses, start \in OptDays :
          /\ sessions[1].calls = 0 /\ 1 \in DOMAIN tasks
          /\ db_update_task_details_begin(1, 1, name, status, start, Null, Null, "admin")
    \/ \E name \in TaskNames, status \in Statuses, start \in {Null, 1} :
          /\ sessions[2].calls = 0 /\ 2 \in DOMAIN tasks
          /\ db_update_task_details_begin(2, 2, name, status, start, Null, Null, "user")
    \/ db_update_task_details_step(1)
    \/ db_update_task_details_step(2)

SpecTwoTasks == InitWith({NoOffsetChecklist}) /\ [][NextTwoTasks]_vars

(* ------------------------------- claims ------------------------------- *)
CaseOf(T, t) == T[t].case_id

\* The last step was a db_update_task_details call that found task t.
Edited(t) == last'.op = "db_update_task_details" /\ last'.id = t /\ last'.found

\* C1: after every mutation operation of the status engine, every task has
\* status Completed if and only if its task_completed_date is not null.
C1_CompletedIffCompletedDate ==
    last.op \in {"db_update_task_details", "db_update_case_status_and_start_date"}
       => \A t \in DOMAIN tasks :
             (tasks[t].status = "Completed") <=> (tasks[t].task_completed_date # Null)

StartDateChanges(c) ==
    /\ c \in DOMAIN cases /\ c \in DOMAIN cases'
    /\ cases'[c].start_date # cases[c].start_date
    /\ cases'[c].start_date # Null

C10_DeleteCascades ==
    last.op = "db_delete_case"
       => /\ last.id \notin DOMAIN cases
          /\ TasksOf(tasks, last.id) = {}
          /\ RemarksOf(last.id) = {}
          /\ \A a \in DOMAIN task_attachments : task_attachments[a].task_id \in DOMAIN tasks

\* C11: calculate_task_performance(status, due, completed) on evaluation date
\* today returns: for Completed, 'Completed On Time' when due is absent or
\* completed <= due, 'Completed Late' when completed > due; for Not Started and
\* On Hold, 'Overdue' when due is present and due < today, else 'Pending'; for
\* In Progress, 'Overdue' when due is present and due < today, else 'On Time';
\* 'Pending' for any other status.
C11_TaskPerformance ==
    last.op = "calculate_task_performance"
       => LET status == last.status
              due == last.due_date_str
              completed == last.task_completed_date_str
              label == last.performance
          IN /\ (status = "Completed" /\ (due = Null \/ (completed # Null /\ completed <= due)))
                   => label = "Completed On Time"
             /\ (status = "Completed" /\ due # Null /\ completed # Null /\ completed > due)
                   => label = "Completed Late"
             /\ status \in {"Not Started", "On Hold"}
                   => label = (IF due # Null /\ due < today THEN "Overdue" ELSE "Pending")
             /\ status = "In Progress"
                   => label = (IF due # Null /\ due < today THEN "Overdue" ELSE "On Time")
             /\ status \notin Statuses => label = "Pending"

\* C11 witness: an In Progress task due today was classified 'On Time' on the
\* second day.
C11_Witness ==
    /\ last.op = "calculate_task_performance"
    /\ last.status = "In Progress" /\ today = 2 /\ last.due_date_str = today
    /\ last.performance = "On Time"

C13_PopulateCopiesChecklist ==
    [][last'.op = "home_add_case"
         => LET c == last'.id
                R == TemplateRowsFor(cases'[c].case_type)
            IN /\ ~last'.raised
               /\ TasksOf(tasks', c) = {id_seq.task + i - 1 : i \in 1..Cardinality(R)}
               /\ \E ord \in SequenceOrders(R) :
                     \A i \in 1..Cardinality(R) :
                        LET row == tasks'[id_seq.task + i - 1]
                            tt == task_templates[ord[i]]
                        IN /\ row.task_name = tt.task_name
                           /\ row.status = tt.default_status
                           /\ row.day_offset = tt.day_offset
                           /\ row.documents_required = tt.documents_required
                           /\ row.due_date = Null
                           /\ row.task_start_date = Null
                           /\ row.task_completed_date = Null]_vars

\* C14: template operations never touch live tasks.  db_delete_template_type
\* removes the template type and all of its template tasks; it,
\* db_add_task_to_template, db_update_task_template and
\* db_delete_task_from_template leave every task and every case row unchanged.
C14_TemplateOperationsFrame ==
    [][/\ last'.op \in {"db_delete_template_type", "db_add_task_to_template",
                        "db_update_task_template", "db_delete_task_from_template"}
          => tasks' = tasks /\ cases' = cases
       /\ last'.op = "db_delete_template_type"
          => /\ last'.id \notin DOMAIN template_types'
             /\ \A k \in DOMAIN task_templates' :
                   task_templates'[k].template_type_id # last'.id]_vars

\* C14 witness: the template type and its checklist were deleted after a case
\* had been created from them; the case still has its tasks.
C14_Witness ==
    /\ last.op = "db_delete_template_type"
    /\ template_types = EmptyTable /\ task_templates = EmptyTable
    /\ 1 \in DOMAIN cases /\ Cardinality(TasksOf(tasks, 1)) = 2

\* C15: db_update_task_details called with a task_id that no task has raises
\* no error, returns the pair (the status it was given, False) and changes
\* nothing in the store.
C15_MissingTaskIsNoOp ==
    [][(last'.op = "db_update_task_details" /\ last'.id \notin DOMAIN tasks)
         => /\ ~last'.raised
            /\ last'.returned = <<last'.status, FALSE>>
            /\ tasks' = tasks
            /\ cases' = cases]_vars

\* C15 witness: the call asked for Completed on an id no task has, while the
\* case and its task exist and are still Not Started; it returned
\* (Completed, False).
C15_Witness ==
    /\ last.op = "db_update_task_details" /\ ~last.found /\ last.id = 2
    /\ last.returned = <<"Completed", FALSE>>
    /\ 1 \in DOMAIN cases /\ cases[1].status = "Not Started"
    /\ 1 \in DOMAIN tasks /\ tasks[1].status = "Not Started"

\* C16: db_delete_attachment(attachment_id) removes the attachment's row in
\* every case, also when removing the stored file fails or the file is already
\* gone, and a failure to remove the file is not surfaced to the caller.
C16_AttachmentRowAlwaysDeleted ==
    [][last'.op = "db_delete_attachment"
         => /\ last'.id \notin DOMAIN task_attachments'
            /\ ~last'.raised]_vars

RecomputedCase ==
    IF last.op = "db_update_task_details" THEN CaseOf(tasks, last.id) ELSE last.id

InDates(s) ==
    \/ s.pc \in {"dates_sql_get_current_start", "dates_sql_min_task_start",
                 "dates_sql_incomplete_count", "dates_sql_max_task_complete",
                 "dates_sql_update_case"}
    \/ /\ s.pc \in {"due_sql_select", "due_sql_update"}
       /\ Head(s.stack) = "dates_sql_incomplete_count"

LastWriter == CHOOSE p \in SessionIds : \A q \in SessionIds : sessions[q].update_seq <= sessions[p].update_seq

=============================================================================
